---- MODULE Spec2Model ----
(***************************************************************************)
(* Identity credential lifecycle of the X-sell backend: login, role        *)
(* transitions, flag toggles, superuser bootstrap, e-mail verification and *)
(* the three-phase password reset.  The identity store and the             *)
(* verification-code store are the state; every handler is one action that *)
(* runs to completion; the requests in flight of the concurrent            *)
(* specifications run one database round trip at a time.                   *)
(***************************************************************************)
EXTENDS Integers, FiniteSets, Sequences, TLC

VARIABLES users, codes, now, last, observed, calls

vars == <<users, codes, now, last, observed, calls>>

(***************************************************************************)
(* Bounds of the model.                                                    *)
(***************************************************************************)
\* number of distinct random suffixes generate_id can return per prefix
IdPool == 2
\* number of distinct values the 6-digit code generator can return
CodePool == 2
\* the clock advances TickMinutes minutes at a time, at most MaxTicks times
TickMinutes == 5
MaxTicks == 3

Emails == {"a@x.com", "b@x.com"}
Passwords == {"pw1", "fake_password"}

(***************************************************************************)
(* Program constants.                                                      *)
(***************************************************************************)
USER == "user"
MERCHANT == "merchant"
ADMIN == "admin"
SUPER_ADMIN == "SuperAdmin"
SUPERUSER == "Superuser"
UserRole == {USER, MERCHANT, ADMIN, SUPER_ADMIN, SUPERUSER}

\* lifetime of a verification code, minutes
CODE_TTL == 10

API_SUPERUSER_SECRET_KEY == "secret"
SecretInputs == {API_SUPERUSER_SECRET_KEY, "wrong", ""}

\* values of the unique_id column and of unique_id inputs: <<prefix, suffix>>
NoneId == <<"None", 0>>
EmptyId == <<"", 0>>
fake_unique_id == <<"fake_unique_id_12345", 0>>
\* values of the hashed_password column
NoneHash == <<"None", "">>
\* verification-code values: <<"code", n>>; n = 0 is never generated
code_value(c) == <<"code", c>>
NoCode == code_value(0)

IDPrefix(role) ==
    CASE role = ADMIN -> "ADMIN"
      [] role = SUPER_ADMIN -> "SUPER_ADMIN"
      [] role = SUPERUSER -> "SUPERUSER"
      [] OTHER -> ""

\* IDGenerator.generate_id(prefix, 12): prefix + random suffix; g is the draw
generate_id(prefix, g) == <<prefix, g>>

GenDraws == 1..IdPool
CodeDraws == 1..CodePool

\* security_manager.hash_password / verify_password
hash_password(p) == <<"hash", p>>
verify_password(p, h) == h = hash_password(p)
fake_hash == hash_password("fake_password")

\* Python truthiness of the string-or-None inputs
TruthyId(u) == u # NoneId /\ u # EmptyId
TruthyStr(s) == s # ""

\* mutation: a created row is verified from the start
NewUser_verified(role, hashed, uid) ==
    [role |-> role, hashed_password |-> hashed, unique_id |-> uid,
     is_verified |-> TRUE, admin_approval |-> FALSE,
     is_super_admin |-> FALSE, is_active |-> TRUE]

\* a freshly created row of the users table: the column defaults
NewUser(role, hashed, uid) ==
    [role |-> role, hashed_password |-> hashed, unique_id |-> uid,
     is_verified |-> FALSE, admin_approval |-> FALSE,
     is_super_admin |-> FALSE, is_active |-> TRUE]

\* mutation: the unique_id column without its unique constraint
UniqueIdConflict_unconstrained(us, e, uid) == FALSE

\* the unique constraint on users.unique_id: would setting e's unique_id to
\* uid violate it?
UniqueIdConflict(us, e, uid) ==
    uid # NoneId /\ \E o \in DOMAIN us : o # e /\ us[o].unique_id = uid

\* responses
Err(kind, detail) == [res |-> kind, detail |-> detail, out |-> NoneId]
Ok(detail, out) == [res |-> "ok", detail |-> detail, out |-> out]

\* the last call, when its handler is one of the observed ones: its handler,
\* target e-mail and response, and, when it succeeded, the credential or code
\* it was given and, for the role and flag handlers, the actor's role and the
\* requested role; the e-mail verification handlers keep the code they were
\* given when they fail too, and with "denials" observed the role and flag
\* handlers keep the actor's role and the requested role of a refused call.
\* A call of any other handler leaves NoLast.
NoLast ==
    [op |-> "init", email |-> "", res |-> "", inp |-> NoneId,
     actor |-> "", new_role |-> ""]

Last(op, email, r, inp, actor, new_role) ==
    [op |-> op, email |-> email, res |-> r.res,
     inp |-> IF r.res = "ok" \/ op \in {"get_verification_code", "verify_email"}
               THEN inp ELSE NoneId,
     actor |-> IF r.res = "ok" \/ "denials" \in observed THEN actor ELSE "",
     new_role |-> IF r.res = "ok" \/ "denials" \in observed THEN new_role ELSE ""]

NoRows == [x \in {} |-> x]

\* the handlers whose calls are recorded, by the part of the API they belong to
RoleOps == {"create_superuser", "update_role", "svc_update_role"}
LoginOps == {"login"}
ResetOps == {"request_password_reset", "verify_reset_code", "reset_password_with_otp"}
VerificationOps == {"get_verification_code", "verify_email"}
IssueOps == {"generate_verification_code"}

\* the requests being served concurrently, each with its own session; the
\* specifications whose handlers run to completion have no such slots
Procs == {1, 2}

\* a request slot: the handler it runs, where it stands, its arguments, the
\* users row its session loaded, and its response
IdleCall ==
    [pc |-> "idle", op |-> "", email |-> "", code |-> NoCode,
     actor |-> "", new_role |-> "", flag |-> "",
     password |-> "", secret_key |-> "",
     db_user |-> NewUser(USER, NoneHash, NoneId),
     res |-> "", out |-> NoneId]

NoCalls == [p \in Procs |-> IdleCall]

EmptyStores ==
    /\ users = NoRows
    /\ codes = NoRows
    /\ now = 0
    /\ last = NoLast
    /\ calls = NoRows

Init == EmptyStores /\ observed = RoleOps
InitLogin == EmptyStores /\ observed = LoginOps
InitReset == EmptyStores /\ observed = ResetOps
InitVerification == EmptyStores /\ observed = VerificationOps
FlagOps == {"toggle_flag"}
InitFlags == EmptyStores /\ observed = FlagOps
InitClock == EmptyStores /\ observed = VerificationOps \cup IssueOps

\* the outcome of a handler: its response and the stores it leaves behind
Fail(r, us, cs) == [r |-> r, users |-> us, codes |-> cs]
Done(r, us, cs) == [r |-> r, users |-> us, codes |-> cs]

InsertUser(us, e, row) ==
    [x \in DOMAIN us \cup {e} |-> IF x = e THEN row ELSE us[x]]

(***************************************************************************)
(* Registration                                                            *)
(***************************************************************************)
create_user(us, cs, e) ==
    IF e \in DOMAIN us
      THEN Fail(Err("email_exist", "Email exist please login to continue"), us, cs)
      ELSE Done(Ok("account created", NoneId),
                InsertUser(us, e, NewUser(USER, NoneHash, NoneId)), cs)

(***************************************************************************)
(* Superuser bootstrap                                                     *)
(***************************************************************************)
\* mutation: the singleton check reads the is_super_admin flag, not the role
SuperuserExists_by_flag(us) == \E x \in DOMAIN us : us[x].is_super_admin

\* mutation: the singleton check counts only a verified superuser
SuperuserExists_verified(us) ==
    \E x \in DOMAIN us : us[x].role = SUPERUSER /\ us[x].is_verified

SuperuserExists(us) == \E x \in DOMAIN us : us[x].role = SUPERUSER

create_superuser(us, cs, e, password, secret_key, g) ==
    IF secret_key # API_SUPERUSER_SECRET_KEY
      THEN Fail(Err("forbidden", "Forbidden"), us, cs)
    ELSE IF SuperuserExists(us)
      THEN Fail(Err("forbidden", "Superuser already exists"), us, cs)
    ELSE LET uid == generate_id(IDPrefix(SUPERUSER), g) IN
      \* user_crud.create: the unique constraints on email and unique_id
      IF e \in DOMAIN us \/ UniqueIdConflict(us, e, uid)
        THEN Fail(Err("internal", "IntegrityError"), us, cs)
        ELSE Done(Ok("created", uid),
                  InsertUser(us, e, NewUser(SUPERUSER, hash_password(password), uid)), cs)

(***************************************************************************)
(* Role management                                                         *)
(***************************************************************************)
\* mutation: the SUPER_ADMIN rule joined with "and" instead of "or"
role_rules_and(actor, target_role, new_role) ==
    IF actor = SUPERUSER THEN ""
    ELSE IF actor = SUPER_ADMIN
      THEN IF target_role \notin {USER, ADMIN} /\ new_role \notin {USER, ADMIN}
             THEN "SUPER_ADMIN can only toggle USER <-> ADMIN"
             ELSE ""
    ELSE "Only SUPERUSER or SUPER_ADMIN can change roles"

\* the role rules: "" when the actor may proceed, else the reason
role_rules(actor, target_role, new_role) ==
    IF actor = SUPERUSER THEN ""
    ELSE IF actor = SUPER_ADMIN
      THEN IF target_role \notin {USER, ADMIN} \/ new_role \notin {USER, ADMIN}
             THEN "SUPER_ADMIN can only toggle USER <-> ADMIN"
             ELSE ""
    ELSE "Only SUPERUSER or SUPER_ADMIN can change roles"

\* mutation: the two roles of the frozen-superuser check swapped
downgrades_superuser_swapped(target_role, new_role) ==
    new_role = SUPERUSER /\ target_role # SUPERUSER

downgrades_superuser(target_role, new_role) ==
    target_role = SUPERUSER /\ new_role # SUPERUSER

same_role(target_role, new_role) == target_role = new_role

\* mutation: the transition to USER leaves unique_id in place
role_transition_keeps_id(u, new_role, g) ==
    IF new_role = ADMIN
      THEN [u EXCEPT !.role = ADMIN, !.unique_id = generate_id(IDPrefix(ADMIN), g)]
    ELSE IF new_role = SUPER_ADMIN
      THEN [u EXCEPT !.role = SUPER_ADMIN,
                     !.unique_id = generate_id(IDPrefix(SUPER_ADMIN), g)]
    ELSE IF new_role = USER
      THEN [u EXCEPT !.role = USER]
    ELSE u

\* the role transition logic applied to the row u
role_transition(u, new_role, g) ==
    IF new_role = ADMIN
      THEN [u EXCEPT !.role = ADMIN, !.unique_id = generate_id(IDPrefix(ADMIN), g)]
    ELSE IF new_role = SUPER_ADMIN
      THEN [u EXCEPT !.role = SUPER_ADMIN,
                     !.unique_id = generate_id(IDPrefix(SUPER_ADMIN), g)]
    ELSE IF new_role = USER
      THEN [u EXCEPT !.role = USER, !.unique_id = NoneId]
    ELSE u

\* db.commit() of a changed users row: the unique constraint on unique_id
CommitUser(r, us, cs, e, row) ==
    IF UniqueIdConflict(us, e, row.unique_id)
      THEN Fail(Err("internal", "IntegrityError"), us, cs)
      ELSE Done(r, [us EXCEPT ![e] = row], cs)

\* mutation: the same-role check made before the role rules
update_role_same_role_first(us, cs, actor, target_email, new_role, g) ==
    IF target_email \notin DOMAIN us
      THEN Fail(Err("not_found", "User not found"), us, cs)
    ELSE IF new_role \notin UserRole
      THEN Fail(Err("bad_request", "Invalid role"), us, cs)
    ELSE LET db_user == us[target_email]
             denied == role_rules(actor, db_user.role, new_role) IN
      IF same_role(db_user.role, new_role)
        THEN Fail(Err("already_verified", "already upgrade role"), us, cs)
      ELSE IF denied # ""
        THEN Fail(Err("forbidden", denied), us, cs)
      ELSE IF downgrades_superuser(db_user.role, new_role)
        THEN Fail(Err("forbidden", "Cannot change role of SUPERUSER"), us, cs)
      ELSE IF new_role = USER /\ db_user.role = USER
        THEN Fail(Err("forbidden", "User already has USER role"), us, cs)
      ELSE CommitUser(Ok("User role update success", NoneId), us, cs,
                      target_email, role_transition(db_user, new_role, g))

update_role(us, cs, actor, target_email, new_role, g) ==
    IF target_email \notin DOMAIN us
      THEN Fail(Err("not_found", "User not found"), us, cs)
    ELSE IF new_role \notin UserRole
      THEN Fail(Err("bad_request", "Invalid role"), us, cs)
    ELSE LET db_user == us[target_email]
             denied == role_rules(actor, db_user.role, new_role) IN
      IF denied # ""
        THEN Fail(Err("forbidden", denied), us, cs)
      ELSE IF downgrades_superuser(db_user.role, new_role)
        THEN Fail(Err("forbidden", "Cannot change role of SUPERUSER"), us, cs)
      ELSE IF same_role(db_user.role, new_role)
        THEN Fail(Err("already_verified", "already upgrade role"), us, cs)
      ELSE IF new_role = USER /\ db_user.role = USER
        THEN Fail(Err("forbidden", "User already has USER role"), us, cs)
      ELSE CommitUser(Ok("User role update success", NoneId), us, cs,
                      target_email, role_transition(db_user, new_role, g))

\* services/auth/superuser_service.py has its own update_role, without the
\* same-role check
svc_update_role(us, cs, actor, target_email, new_role, g) ==
    IF target_email \notin DOMAIN us
      THEN Fail(Err("not_found", "User not found"), us, cs)
    ELSE IF new_role \notin UserRole
      THEN Fail(Err("bad_request", "Invalid role"), us, cs)
    ELSE LET db_user == us[target_email]
             denied == role_rules(actor, db_user.role, new_role) IN
      IF denied # ""
        THEN Fail(Err("forbidden", denied), us, cs)
      ELSE IF downgrades_superuser(db_user.role, new_role)
        THEN Fail(Err("forbidden", "Cannot change role of SUPERUSER"), us, cs)
      ELSE IF new_role = USER /\ db_user.role = USER
        THEN Fail(Err("forbidden", "User already has USER role"), us, cs)
      ELSE CommitUser(Ok("", NoneId), us, cs,
                      target_email, role_transition(db_user, new_role, g))

(***************************************************************************)
(* Flag toggling                                                           *)
(***************************************************************************)
BoolFlags == {"is_verified", "admin_approval", "is_super_admin", "is_active"}
\* attributes of a users row that exist but are not boolean
OtherAttrs == {"role", "unique_id", "hashed_password"}

\* flag_rules without the check of the target's role
flag_rules_any_target(actor, target_role, flag) ==
    IF actor = SUPERUSER THEN ""
    ELSE IF actor = SUPER_ADMIN
      THEN IF flag # "admin_approval"
             THEN "SUPER_ADMIN can only toggle admin_approval"
           ELSE ""
    ELSE "Only SUPERUSER or SUPER_ADMIN can toggle flags"

flag_rules(actor, target_role, flag) ==
    IF actor = SUPERUSER THEN ""
    ELSE IF actor = SUPER_ADMIN
      THEN IF flag # "admin_approval"
             THEN "SUPER_ADMIN can only toggle admin_approval"
           ELSE IF target_role \notin {USER, ADMIN}
             THEN "SUPER_ADMIN can only toggle flags for USER/ADMIN"
           ELSE ""
    ELSE "Only SUPERUSER or SUPER_ADMIN can toggle flags"

\* mutation: the flag is set instead of negated
flip_sets(u, flag) ==
    CASE flag = "is_verified" -> [u EXCEPT !.is_verified = TRUE]
      [] flag = "admin_approval" -> [u EXCEPT !.admin_approval = TRUE]
      [] flag = "is_super_admin" -> [u EXCEPT !.is_super_admin = TRUE]
      [] flag = "is_active" -> [u EXCEPT !.is_active = TRUE]
      [] OTHER -> u

flip(u, flag) ==
    CASE flag = "is_verified" -> [u EXCEPT !.is_verified = ~@]
      [] flag = "admin_approval" -> [u EXCEPT !.admin_approval = ~@]
      [] flag = "is_super_admin" -> [u EXCEPT !.is_super_admin = ~@]
      [] flag = "is_active" -> [u EXCEPT !.is_active = ~@]
      [] OTHER -> u

flag_value(u, flag) ==
    CASE flag = "is_verified" -> u.is_verified
      [] flag = "admin_approval" -> u.admin_approval
      [] flag = "is_super_admin" -> u.is_super_admin
      [] flag = "is_active" -> u.is_active
      [] OTHER -> FALSE

toggle_flag(us, cs, actor, target_email, flag) ==
    IF target_email \notin DOMAIN us
      THEN Fail(Err("not_found", "User not found"), us, cs)
    ELSE LET db_user == us[target_email]
             denied == flag_rules(actor, db_user.role, flag) IN
      IF denied # ""
        THEN Fail(Err("forbidden", denied), us, cs)
      ELSE IF flag \notin BoolFlags
        THEN Fail(Err("bad_request", "Invalid boolean flag"), us, cs)
      ELSE Done(Ok("status updated", <<flag, IF flag_value(flip(db_user, flag), flag) THEN 1 ELSE 0>>),
                [us EXCEPT ![target_email] = flip(db_user, flag)], cs)

(***************************************************************************)
(* Verification codes                                                      *)
(***************************************************************************)
\* utils/generate.py, generate_verification_code: get_verification_code is
\* called without await, so existing_code is a coroutine object, which is
\* truthy whatever the table holds
existing_code(cs, e) == TRUE

\* utils/generate.py, generate_verification_code, the issuer the routes of
\* routes/auth/user.py call.  Setting .code on the coroutine object raises
\* AttributeError before anything is written; the other branch would call
\* create() with positional arguments, which it does not take.
generate_verification_code(us, cs, e, c, t) ==
    IF existing_code(cs, e)
      THEN Fail(Err("internal", "AttributeError"), us, cs)
      ELSE Fail(Err("internal", "TypeError"), us, cs)

\* VerificationManager.generate_code: upsert of the one code row of user e
generate_code(cs, e, c, t) ==
    [x \in DOMAIN cs \cup {e} |->
       IF x = e THEN [code |-> code_value(c), expires_at |-> t + CODE_TTL]
                ELSE cs[x]]

\* mutation: a code is still accepted at the instant it expires
code_matches_inclusive(cs, e, code, t) ==
    /\ e \in DOMAIN cs
    /\ cs[e].code = code
    /\ cs[e].expires_at >= t

\* the row VerificationCodeCrud.verify_code selects
code_matches(cs, e, code, t) ==
    /\ e \in DOMAIN cs
    /\ cs[e].code = code
    /\ cs[e].expires_at > t

\* mutation: the delete is not restricted to the matched row
DeleteCode_all(cs, e) == NoRows

\* mutation: the matched code row is not deleted
DeleteCode_kept(cs, e) == cs

DeleteCode(cs, e) == [x \in DOMAIN cs \ {e} |-> cs[x]]

\* VerificationCodeCrud.verify_code: the answer and the code store afterwards
verify_code(cs, e, code, t) ==
    IF code_matches(cs, e, code, t)
      THEN [ok |-> TRUE, codes |-> DeleteCode(cs, e)]
      ELSE [ok |-> FALSE, codes |-> cs]

get_verification_code(us, cs, email, c, t) ==
    IF email \notin DOMAIN us
      THEN Fail(Err("email_not_registered", "Email is not registered"), us, cs)
      ELSE Done(Ok("verification code sent", code_value(c)), us,
                generate_code(cs, email, c, t))

verify_email(us, cs, email, verification_code, t) ==
    IF email \notin DOMAIN us
      THEN Fail(Err("email_not_registered", "Email is not registered"), us, cs)
    ELSE LET v == verify_code(cs, email, verification_code, t) IN
      IF ~v.ok
        THEN Fail(Err("invalid_verification_code", "Invalid Verification code"), us, v.codes)
        ELSE Done(Ok("email verified", NoneId),
                  [us EXCEPT ![email].is_verified = TRUE], v.codes)

(***************************************************************************)
(* Login                                                                   *)
(***************************************************************************)
PrivilegedRoles == {ADMIN, SUPER_ADMIN, SUPERUSER}

password_to_check(us, email) ==
    IF email \in DOMAIN us THEN us[email].hashed_password ELSE fake_hash

unique_id_to_check(us, email) ==
    IF email \in DOMAIN us THEN us[email].unique_id ELSE fake_unique_id

\* mutation: the unique_id comparison left out of the decision
credentials_ok_without_unique_id(us, email, password, unique_id) ==
    /\ email \in DOMAIN us
    /\ verify_password(password, password_to_check(us, email))

credentials_ok(us, email, password, unique_id) ==
    /\ email \in DOMAIN us
    /\ verify_password(password, password_to_check(us, email))
    /\ unique_id = unique_id_to_check(us, email)

missing_input_error == Err("invalid_credentials", "Invalid email or password")
bad_credentials_error == Err("invalid_credentials", "Invalid email or password")
not_verified_error == Err("forbidden", "Email not verified")
not_privileged_error == Err("forbidden", "Admin approval required")

\* mutation: an unknown e-mail is reported as such
login_reveals_unknown_email(us, cs, email, password, unique_id) ==
    IF ~TruthyStr(email) \/ ~TruthyStr(password) \/ ~TruthyId(unique_id)
      THEN Fail(missing_input_error, us, cs)
    ELSE IF email \notin DOMAIN us
      THEN Fail(Err("email_not_registered", "Email is not registered"), us, cs)
    ELSE IF ~credentials_ok(us, email, password, unique_id)
      THEN Fail(bad_credentials_error, us, cs)
    ELSE IF ~us[email].is_verified
      THEN Fail(not_verified_error, us, cs)
    ELSE IF us[email].role \notin PrivilegedRoles
      THEN Fail(not_privileged_error, us, cs)
    ELSE Done(Ok("login success", <<"tokens", 0>>), us, cs)

\* mutation: the verification flag is looked at before the credentials
login_checks_verified_first(us, cs, email, password, unique_id) ==
    IF ~TruthyStr(email) \/ ~TruthyStr(password) \/ ~TruthyId(unique_id)
      THEN Fail(missing_input_error, us, cs)
    ELSE IF email \in DOMAIN us /\ ~us[email].is_verified
      THEN Fail(not_verified_error, us, cs)
    ELSE IF ~credentials_ok(us, email, password, unique_id)
      THEN Fail(bad_credentials_error, us, cs)
    ELSE IF us[email].role \notin PrivilegedRoles
      THEN Fail(not_privileged_error, us, cs)
    ELSE Done(Ok("login success", <<"tokens", 0>>), us, cs)

login(us, cs, email, password, unique_id) ==
    IF ~TruthyStr(email) \/ ~TruthyStr(password) \/ ~TruthyId(unique_id)
      THEN Fail(missing_input_error, us, cs)
    ELSE IF ~credentials_ok(us, email, password, unique_id)
      THEN Fail(bad_credentials_error, us, cs)
    ELSE IF ~us[email].is_verified
      THEN Fail(not_verified_error, us, cs)
    ELSE IF us[email].role \notin PrivilegedRoles
      THEN Fail(not_privileged_error, us, cs)
    ELSE Done(Ok("login success", <<"tokens", 0>>), us, cs)

\* mutation: the comparisons are skipped when the e-mail is unknown
login_steps_short_circuit(us, email, password, unique_id) ==
    IF ~TruthyStr(email) \/ ~TruthyStr(password) \/ ~TruthyId(unique_id)
      THEN << >>
    ELSE IF email \notin DOMAIN us
      THEN << [step |-> "sleep", with |-> NoneHash],
              [step |-> "get_user_by_email", with |-> NoneHash] >>
    ELSE << [step |-> "sleep", with |-> NoneHash],
            [step |-> "get_user_by_email", with |-> NoneHash],
            [step |-> "verify_password", with |-> password_to_check(us, email)],
            [step |-> "compare_unique_id", with |-> unique_id_to_check(us, email)] >>

\* what login executes up to the point where it decides between
\* invalid_credentials and going on: the statements of the body in order,
\* the two comparisons with the value they compare against
login_steps(us, email, password, unique_id) ==
    IF ~TruthyStr(email) \/ ~TruthyStr(password) \/ ~TruthyId(unique_id)
      THEN << >>
      ELSE << [step |-> "sleep", with |-> NoneHash],
              [step |-> "get_user_by_email", with |-> NoneHash],
              [step |-> "verify_password", with |-> password_to_check(us, email)],
              [step |-> "compare_unique_id", with |-> unique_id_to_check(us, email)] >>

(***************************************************************************)
(* Password reset                                                          *)
(***************************************************************************)
\* mutation: the superuser's secret key has to be present but is not compared
request_password_reset_any_key(us, cs, email, unique_id, superuser_secret_key, c, t) ==
    IF email \notin DOMAIN us
      THEN Fail(Err("email_not_registered", "Email is not registered"), us, cs)
    ELSE LET db_user == us[email] IN
      IF ~db_user.is_verified
        THEN Fail(Err("forbidden", "Email not verified"), us, cs)
      ELSE IF db_user.role \notin PrivilegedRoles
        THEN Fail(Err("forbidden", "Only ADMIN, SUPER_ADMIN, and SUPERUSER can use this reset flow"), us, cs)
      ELSE IF db_user.role = SUPERUSER /\ ~(TruthyStr(superuser_secret_key) /\ TruthyId(unique_id))
        THEN Fail(Err("forbidden", "Superuser requires secret key and unique_id"), us, cs)
      ELSE IF db_user.role # SUPERUSER /\ ~TruthyId(unique_id)
        THEN Fail(Err("forbidden", "Admin/Superadmin requires unique_id"), us, cs)
      ELSE IF unique_id # db_user.unique_id
        THEN Fail(Err("invalid_credentials", "Invalid unique_id"), us, cs)
      ELSE Done(Ok("verification code sent", code_value(c)), us,
                generate_code(cs, email, c, t))

\* mutation: the superuser's unique_id is compared before the secret key
request_password_reset_id_first(us, cs, email, unique_id, superuser_secret_key, c, t) ==
    IF email \notin DOMAIN us
      THEN Fail(Err("email_not_registered", "Email is not registered"), us, cs)
    ELSE LET db_user == us[email] IN
      IF ~db_user.is_verified
        THEN Fail(Err("forbidden", "Email not verified"), us, cs)
      ELSE IF db_user.role \notin PrivilegedRoles
        THEN Fail(Err("forbidden", "Only ADMIN, SUPER_ADMIN, and SUPERUSER can use this reset flow"), us, cs)
      ELSE IF db_user.role = SUPERUSER /\ ~(TruthyStr(superuser_secret_key) /\ TruthyId(unique_id))
        THEN Fail(Err("forbidden", "Superuser requires secret key and unique_id"), us, cs)
      ELSE IF db_user.role # SUPERUSER /\ ~TruthyId(unique_id)
        THEN Fail(Err("forbidden", "Admin/Superadmin requires unique_id"), us, cs)
      ELSE IF unique_id # db_user.unique_id
        THEN Fail(Err("invalid_credentials", "Invalid unique_id"), us, cs)
      ELSE IF db_user.role = SUPERUSER /\ superuser_secret_key # API_SUPERUSER_SECRET_KEY
        THEN Fail(Err("forbidden", "Invalid superuser secret key"), us, cs)
      ELSE Done(Ok("verification code sent", code_value(c)), us,
                generate_code(cs, email, c, t))

\* mutation: the code is issued before the credentials are compared
request_password_reset_issues_first(us, cs, email, unique_id, superuser_secret_key, c, t) ==
    IF email \notin DOMAIN us
      THEN Fail(Err("email_not_registered", "Email is not registered"), us, cs)
    ELSE LET db_user == us[email]
             issued == generate_code(cs, email, c, t) IN
      IF ~db_user.is_verified
        THEN Fail(Err("forbidden", "Email not verified"), us, cs)
      ELSE IF db_user.role \notin PrivilegedRoles
        THEN Fail(Err("forbidden", "Only ADMIN, SUPER_ADMIN, and SUPERUSER can use this reset flow"), us, cs)
      ELSE IF db_user.role = SUPERUSER /\ ~(TruthyStr(superuser_secret_key) /\ TruthyId(unique_id))
        THEN Fail(Err("forbidden", "Superuser requires secret key and unique_id"), us, issued)
      ELSE IF db_user.role = SUPERUSER /\ superuser_secret_key # API_SUPERUSER_SECRET_KEY
        THEN Fail(Err("forbidden", "Invalid superuser secret key"), us, issued)
      ELSE IF db_user.role # SUPERUSER /\ ~TruthyId(unique_id)
        THEN Fail(Err("forbidden", "Admin/Superadmin requires unique_id"), us, issued)
      ELSE IF unique_id # db_user.unique_id
        THEN Fail(Err("invalid_credentials", "Invalid unique_id"), us, issued)
      ELSE Done(Ok("verification code sent", code_value(c)), us, issued)

request_password_reset(us, cs, email, unique_id, superuser_secret_key, c, t) ==
    IF email \notin DOMAIN us
      THEN Fail(Err("email_not_registered", "Email is not registered"), us, cs)
    ELSE LET db_user == us[email] IN
      IF ~db_user.is_verified
        THEN Fail(Err("forbidden", "Email not verified"), us, cs)
      ELSE IF db_user.role \notin PrivilegedRoles
        THEN Fail(Err("forbidden", "Only ADMIN, SUPER_ADMIN, and SUPERUSER can use this reset flow"), us, cs)
      ELSE IF db_user.role = SUPERUSER /\ ~(TruthyStr(superuser_secret_key) /\ TruthyId(unique_id))
        THEN Fail(Err("forbidden", "Superuser requires secret key and unique_id"), us, cs)
      ELSE IF db_user.role = SUPERUSER /\ superuser_secret_key # API_SUPERUSER_SECRET_KEY
        THEN Fail(Err("forbidden", "Invalid superuser secret key"), us, cs)
      ELSE IF db_user.role # SUPERUSER /\ ~TruthyId(unique_id)
        THEN Fail(Err("forbidden", "Admin/Superadmin requires unique_id"), us, cs)
      ELSE IF unique_id # db_user.unique_id
        THEN Fail(Err("invalid_credentials", "Invalid unique_id"), us, cs)
      ELSE Done(Ok("verification code sent", code_value(c)), us,
                generate_code(cs, email, c, t))

\* mutation: the rotation always uses the ADMIN prefix
rotate_unique_id_admin_prefix(u, g) ==
    IF u.role \in PrivilegedRoles
      THEN [u EXCEPT !.unique_id = generate_id(IDPrefix(ADMIN), g)]
      ELSE u

\* the rotation of unique_id that closes verify_reset_code and
\* reset_password_with_otp
rotate_unique_id(u, g) ==
    IF u.role \in PrivilegedRoles
      THEN [u EXCEPT !.unique_id = generate_id(IDPrefix(u.role), g)]
      ELSE u

verify_reset_code(us, cs, email, verification_code, g, t) ==
    IF email \notin DOMAIN us
      THEN Fail(Err("email_not_registered", "Email is not registered"), us, cs)
    ELSE LET v == verify_code(cs, email, verification_code, t) IN
      IF ~v.ok
        THEN Fail(Err("invalid_verification_code", "Invalid Verification code"), us, v.codes)
        ELSE LET row == rotate_unique_id(us[email], g) IN
          CommitUser(Ok("Verification successful, use new unique_id as OTP to reset password",
                        row.unique_id),
                     us, v.codes, email, row)

otp_matches(u, otp_unique_id) == otp_unique_id = u.unique_id

reset_password_with_otp(us, cs, email, otp_unique_id, new_password, g) ==
    IF email \notin DOMAIN us
      THEN Fail(Err("email_not_registered", "Email is not registered"), us, cs)
    ELSE IF ~otp_matches(us[email], otp_unique_id)
      THEN Fail(Err("invalid_credentials", "Invalid OTP unique_id"), us, cs)
    ELSE CommitUser(Ok("Password reset successfully", NoneId), us, cs, email,
                    rotate_unique_id([us[email] EXCEPT !.hashed_password = hash_password(new_password)], g))

\* a handler call as a step of the system
Step(op, email, o, inp, actor, new_role) ==
    /\ users' = o.users
    /\ codes' = o.codes
    /\ last' = IF op \in observed THEN Last(op, email, o.r, inp, actor, new_role)
                                 ELSE NoLast
    /\ UNCHANGED <<now, observed, calls>>

CreateUser(e) ==
    Step("create_user", e, create_user(users, codes, e), NoneId, "", "")

CreateSuperuser(e, p, k, g) ==
    Step("create_superuser", e, create_superuser(users, codes, e, p, k, g), NoneId, "", "")

UpdateRole(a, e, nr, g) ==
    Step("update_role", e, update_role(users, codes, a, e, nr, g), NoneId, a, nr)

SvcUpdateRole(a, e, nr, g) ==
    Step("svc_update_role", e, svc_update_role(users, codes, a, e, nr, g), NoneId, a, nr)

ToggleFlag(a, e, f) ==
    Step("toggle_flag", e, toggle_flag(users, codes, a, e, f), NoneId, a, "")

GetVerificationCode(e, c) ==
    Step("get_verification_code", e,
         get_verification_code(users, codes, e, c, now), NoneId, "", "")

VerifyEmail(e, code) ==
    Step("verify_email", e, verify_email(users, codes, e, code, now), code, "", "")

GenerateVerificationCode(e, c) ==
    Step("generate_verification_code", e,
         generate_verification_code(users, codes, e, c, now), NoneId, "", "")

\* time passes
Tick ==
    /\ now < MaxTicks * TickMinutes
    /\ now' = now + TickMinutes
    /\ last' = NoLast
    /\ UNCHANGED <<users, codes, observed, calls>>

Login(e, p, u) == Step("login", e, login(users, codes, e, p, u), u, "", "")

RequestPasswordReset(e, u, k, c) ==
    Step("request_password_reset", e,
         request_password_reset(users, codes, e, u, k, c, now), u, "", "")

VerifyResetCode(e, code, g) ==
    Step("verify_reset_code", e,
         verify_reset_code(users, codes, e, code, g, now), code, "", "")

ResetPasswordWithOtp(e, otp, p, g) ==
    Step("reset_password_with_otp", e,
         reset_password_with_otp(users, codes, e, otp, p, g), otp, "", "")

\* the values a caller may supply
GeneratedIds == {generate_id(IDPrefix(r), g) : r \in PrivilegedRoles, g \in GenDraws}
IdInputs == GeneratedIds \cup {NoneId, EmptyId, fake_unique_id}
CodeInputs == {code_value(c) : c \in CodeDraws} \cup {NoCode}
PasswordInputs == Passwords \cup {""}
EmailInputs == Emails \cup {""}
FlagInputs == BoolFlags \cup OtherAttrs \cup {"nope"}

\* the inputs the system is driven with
RegisterEmails == {"b@x.com"}
NewPasswords == {"pw1"}
LoginPasswords == {"pw1", "fake_password"}
ToggledFlags == {"is_verified", "role"}
ActorRoles == {SUPERUSER, SUPER_ADMIN, ADMIN}
NewRoles == {USER, ADMIN, SUPER_ADMIN, SUPERUSER}
Secrets == {API_SUPERUSER_SECRET_KEY, "wrong"}
\* for e-mail e: what it holds, the other draws of its role, and a decoy
DrivenIds(e) ==
    (IF e \in DOMAIN users
       THEN {users[e].unique_id} \cup
            {generate_id(IDPrefix(users[e].role), g) : g \in GenDraws}
       ELSE {}) \cup {fake_unique_id}

\* request_password_reset is also called without a unique_id
RequestIds(e) == DrivenIds(e) \cup {NoneId}

Next ==
    \/ \E e \in RegisterEmails : CreateUser(e)
    \/ \E e \in Emails, p \in NewPasswords, k \in Secrets, g \in GenDraws :
         CreateSuperuser(e, p, k, g)
    \/ \E a \in ActorRoles, e \in Emails, nr \in NewRoles, g \in GenDraws :
         UpdateRole(a, e, nr, g)
    \/ \E a \in ActorRoles, e \in Emails, f \in ToggledFlags : ToggleFlag(a, e, f)
    \/ \E e \in Emails : \E p \in LoginPasswords, u \in DrivenIds(e) : Login(e, p, u)
    \/ \E e \in Emails : \E u \in RequestIds(e), k \in Secrets, c \in CodeDraws :
         RequestPasswordReset(e, u, k, c)
    \/ \E e \in Emails, code \in CodeInputs, g \in GenDraws : VerifyResetCode(e, code, g)
    \/ \E e \in Emails : \E otp \in DrivenIds(e), p \in NewPasswords, g \in GenDraws :
         ResetPasswordWithOtp(e, otp, p, g)

\* the seven operations, observing the role handlers, the login handler or
\* the reset handlers
Spec == Init /\ [][Next]_vars
SpecLogin == InitLogin /\ [][Next]_vars
SpecReset == InitReset /\ [][Next]_vars

\* the same system with the handlers outside the seven operations: the
\* services' own update_role, and the e-mail verification handlers, which
\* issue and consume verification codes without any credential
NextVerification ==
    \/ Next
    \/ \E a \in ActorRoles, e \in Emails, nr \in NewRoles, g \in GenDraws :
         SvcUpdateRole(a, e, nr, g)
    \/ \E e \in Emails, c \in CodeDraws : GetVerificationCode(e, c)
    \/ \E e \in Emails, code \in CodeInputs : VerifyEmail(e, code)

SpecVerification == InitVerification /\ [][NextVerification]_vars

\* registration, the issue and verification of e-mail codes, and the clock
NextClock ==
    \/ \E e \in Emails : CreateUser(e)
    \/ \E e \in Emails, c \in CodeDraws : GetVerificationCode(e, c)
    \/ \E e \in Emails, c \in CodeDraws : GenerateVerificationCode(e, c)
    \/ \E e \in Emails, code \in CodeInputs : VerifyEmail(e, code)
    \/ Tick

SpecClock == InitClock /\ [][NextClock]_vars

\* bootstrap, registration, role changes and the toggling of flags,
\* admin_approval included, observing toggle_flag
ApprovalFlags == {"is_verified", "admin_approval", "role"}

NextFlags ==
    \/ \E e \in RegisterEmails : CreateUser(e)
    \/ \E e \in Emails, p \in NewPasswords, k \in Secrets, g \in GenDraws :
         CreateSuperuser(e, p, k, g)
    \/ \E a \in ActorRoles, e \in Emails, nr \in NewRoles, g \in GenDraws :
         UpdateRole(a, e, nr, g)
    \/ \E a \in ActorRoles, e \in Emails, f \in ApprovalFlags : ToggleFlag(a, e, f)

SpecFlags == InitFlags /\ [][NextFlags]_vars

(***************************************************************************)
(* Requests in flight.  Each request has its own AsyncSession; between two *)
(* awaits of a handler the other request may run.  READ COMMITTED: a       *)
(* SELECT sees what has been committed, a commit writes the columns the    *)
(* session changed.                                                        *)
(***************************************************************************)
Quiescent == \A p \in Procs : calls[p].pc = "idle"

\* a handler that runs while no request is in flight
Serial(A) == Quiescent /\ A

\* one step of request p
CallStep(p, c, us, cs) ==
    /\ calls' = [calls EXCEPT ![p] = c]
    /\ users' = us
    /\ codes' = cs
    /\ UNCHANGED <<now, last, observed>>

Finish(c, r) == [c EXCEPT !.pc = "done", !.res = r.res, !.out = r.out]

\* the flush of a commit: UPDATE users SET <the columns whose value differs
\* from the one the session loaded> WHERE id = <the row>
WriteBack(us, e, loaded, changed) ==
    [us EXCEPT ![e] = [f \in DOMAIN changed |->
                         IF changed[f] # loaded[f] THEN changed[f] ELSE @[f]]]

\* the store as the session of a request sees it: its own copy of the row it
\* loaded, the committed rows of everybody else
SessionView(us, e, loaded) == [us EXCEPT ![e] = loaded]

\* the response leaves, the slot is free again
Respond(p) ==
    /\ calls[p].pc = "done"
    /\ CallStep(p, IdleCall, users, codes)

\* ---- verify_reset_code ----
VerifyResetCodeStart(p, e, code) ==
    /\ calls[p].pc = "idle"
    /\ CallStep(p, [IdleCall EXCEPT !.pc = "lookup", !.op = "verify_reset_code",
                                    !.email = e, !.code = code], users, codes)

\* user_crud.get_user_by_email
VerifyResetCodeLookup(p) ==
    LET c == calls[p] IN
    /\ c.op = "verify_reset_code" /\ c.pc = "lookup"
    /\ IF c.email \notin DOMAIN users
         THEN CallStep(p, Finish(c, Err("email_not_registered", "Email is not registered")),
                       users, codes)
         ELSE CallStep(p, [c EXCEPT !.pc = "select", !.db_user = users[c.email]],
                       users, codes)

\* verify_code, the SELECT of the matching row
VerifyCodeSelect(p) ==
    LET c == calls[p] IN
    /\ c.op = "verify_reset_code" /\ c.pc = "select"
    /\ IF code_matches(codes, c.email, c.code, now)
         THEN CallStep(p, [c EXCEPT !.pc = "delete"], users, codes)
         ELSE CallStep(p, Finish(c, Err("invalid_verification_code", "Invalid Verification code")),
                       users, codes)

\* verify_code, db.delete(db_code) and commit: DELETE ... WHERE id = <row>.
\* When the row is gone already the statement matches no row, which the ORM
\* reports as a warning, not as an error: verify_code returns True.
VerifyCodeDelete(p) ==
    LET c == calls[p] IN
    /\ c.op = "verify_reset_code" /\ c.pc = "delete"
    /\ CallStep(p, [c EXCEPT !.pc = "commit"], users, DeleteCode(codes, c.email))

\* the assignment of the new unique_id and db.commit()
VerifyResetCodeCommit(p, g) ==
    LET c == calls[p]
        row == rotate_unique_id(c.db_user, g) IN
    /\ c.op = "verify_reset_code" /\ c.pc = "commit"
    /\ IF row.unique_id # c.db_user.unique_id /\ UniqueIdConflict(users, c.email, row.unique_id)
         THEN CallStep(p, Finish(c, Err("internal", "IntegrityError")), users, codes)
         ELSE CallStep(p, [c EXCEPT !.pc = "refresh", !.db_user = row],
                       WriteBack(users, c.email, c.db_user, row), codes)

\* db.refresh(db_user) and the response, which carries db_user.unique_id
VerifyResetCodeRefresh(p) ==
    LET c == calls[p] IN
    /\ c.op = "verify_reset_code" /\ c.pc = "refresh"
    /\ CallStep(p, Finish([c EXCEPT !.db_user = users[c.email]],
                          Ok("Verification successful, use new unique_id as OTP to reset password",
                             users[c.email].unique_id)),
                users, codes)

\* ---- update_role ----
UpdateRoleStart(p, a, e, nr) ==
    /\ calls[p].pc = "idle"
    /\ CallStep(p, [IdleCall EXCEPT !.pc = "lookup", !.op = "update_role",
                                    !.email = e, !.actor = a, !.new_role = nr],
                users, codes)

\* user_crud.get
UpdateRoleLookup(p) ==
    LET c == calls[p] IN
    /\ c.op = "update_role" /\ c.pc = "lookup"
    /\ IF c.email \notin DOMAIN users
         THEN CallStep(p, Finish(c, Err("not_found", "User not found")), users, codes)
         ELSE CallStep(p, [c EXCEPT !.pc = "commit", !.db_user = users[c.email]],
                       users, codes)

\* the checks and the transition on the row the session loaded, then
\* db.commit()
UpdateRoleCommit(p, g) ==
    LET c == calls[p]
        o == update_role(SessionView(users, c.email, c.db_user), codes,
                         c.actor, c.email, c.new_role, g) IN
    /\ c.op = "update_role" /\ c.pc = "commit"
    /\ IF o.r.res # "ok"
         THEN CallStep(p, Finish(c, o.r), users, codes)
         ELSE CallStep(p, [c EXCEPT !.pc = "refresh", !.db_user = o.users[c.email]],
                       WriteBack(users, c.email, c.db_user, o.users[c.email]), codes)

\* db.refresh(db_user) and the response
UpdateRoleRefresh(p) ==
    LET c == calls[p] IN
    /\ c.op = "update_role" /\ c.pc = "refresh"
    /\ CallStep(p, Finish([c EXCEPT !.db_user = users[c.email]],
                          Ok("User role update success", NoneId)),
                users, codes)

\* ---- generate_verification_code ----
GenerateVerificationCodeStart(p, e) ==
    /\ calls[p].pc = "idle"
    /\ CallStep(p, [IdleCall EXCEPT !.pc = "issue", !.op = "generate_verification_code",
                                    !.email = e], users, codes)

\* the body of the issuer: it has no await that is reached
GenerateVerificationCodeRun(p, cd) ==
    LET c == calls[p]
        o == generate_verification_code(users, codes, c.email, cd, now) IN
    /\ c.op = "generate_verification_code" /\ c.pc = "issue"
    /\ CallStep(p, Finish(c, o.r), o.users, o.codes)

\* bootstrap, registration and role changes, the refused role changes
\* recorded with their actor and requested role
OrderOps == {"update_role", "denials"}
InitOrder == EmptyStores /\ observed = OrderOps

NextOrder ==
    \/ \E e \in RegisterEmails : CreateUser(e)
    \/ \E e \in Emails, p \in NewPasswords, k \in Secrets, g \in GenDraws :
         CreateSuperuser(e, p, k, g)
    \/ \E a \in UserRole, e \in Emails, nr \in NewRoles, g \in GenDraws :
         UpdateRole(a, e, nr, g)

SpecOrder == InitOrder /\ [][NextOrder]_vars

\* both e-mails register and are given roles, so that two identities of
\* one role exist side by side; codes are issued and consumed by
\* verify_reset_code.  The handlers that generate a unique_id are observed.
PeerOps == {"update_role", "verify_reset_code"}
InitPeers == EmptyStores /\ observed = PeerOps
PeerRoles == {USER, ADMIN, SUPER_ADMIN}

NextPeers ==
    \/ \E e \in Emails : CreateUser(e)
    \/ \E e \in Emails, nr \in PeerRoles, g \in GenDraws :
         UpdateRole(SUPERUSER, e, nr, g)
    \/ \E e \in Emails, c \in CodeDraws : GetVerificationCode(e, c)
    \/ \E e \in Emails, code \in CodeInputs, g \in GenDraws : VerifyResetCode(e, code, g)

SpecPeers == InitPeers /\ [][NextPeers]_vars

\* the same handlers, observing the two that issue and consume a code
\* without a credential being asked for
CodeSourceOps == {"get_verification_code", "verify_reset_code"}
InitCodeSource == EmptyStores /\ observed = CodeSourceOps
SpecCodeSource == InitCodeSource /\ [][NextPeers]_vars

\* ---- toggle_flag ----
ToggleFlagStart(p, a, e, f) ==
    /\ calls[p].pc = "idle"
    /\ CallStep(p, [IdleCall EXCEPT !.pc = "lookup", !.op = "toggle_flag",
                                    !.email = e, !.actor = a, !.flag = f],
                users, codes)

\* user_crud.get
ToggleFlagLookup(p) ==
    LET c == calls[p] IN
    /\ c.op = "toggle_flag" /\ c.pc = "lookup"
    /\ IF c.email \notin DOMAIN users
         THEN CallStep(p, Finish(c, Err("not_found", "User not found")), users, codes)
         ELSE CallStep(p, [c EXCEPT !.pc = "commit", !.db_user = users[c.email]],
                       users, codes)

\* the rules, the check of the flag and the setattr on the row the session
\* loaded, then db.commit()
ToggleFlagCommit(p) ==
    LET c == calls[p]
        o == toggle_flag(SessionView(users, c.email, c.db_user), codes,
                         c.actor, c.email, c.flag) IN
    /\ c.op = "toggle_flag" /\ c.pc = "commit"
    /\ IF o.r.res # "ok"
         THEN CallStep(p, Finish(c, o.r), users, codes)
         ELSE CallStep(p, [c EXCEPT !.pc = "refresh", !.db_user = o.users[c.email]],
                       WriteBack(users, c.email, c.db_user, o.users[c.email]), codes)

\* db.refresh(db_user) and the response, which carries the flag's value
ToggleFlagRefresh(p) ==
    LET c == calls[p] IN
    /\ c.op = "toggle_flag" /\ c.pc = "refresh"
    /\ CallStep(p, Finish([c EXCEPT !.db_user = users[c.email]],
                          Ok("status updated",
                             <<c.flag, IF flag_value(users[c.email], c.flag) THEN 1 ELSE 0>>)),
                users, codes)

\* ---- create_superuser ----
CreateSuperuserStart(p, e, password, k) ==
    /\ calls[p].pc = "idle"
    /\ CallStep(p, [IdleCall EXCEPT !.pc = "check", !.op = "create_superuser",
                                    !.email = e, !.password = password,
                                    !.secret_key = k],
                users, codes)

\* the comparison of the secret key and user_crud.get(db, role=SUPERUSER)
CreateSuperuserCheck(p) ==
    LET c == calls[p] IN
    /\ c.op = "create_superuser" /\ c.pc = "check"
    /\ IF c.secret_key # API_SUPERUSER_SECRET_KEY
         THEN CallStep(p, Finish(c, Err("forbidden", "Forbidden")), users, codes)
       ELSE IF SuperuserExists(users)
         THEN CallStep(p, Finish(c, Err("forbidden", "Superuser already exists")),
                       users, codes)
       ELSE CallStep(p, [c EXCEPT !.pc = "create"], users, codes)

\* user_crud.create: the INSERT and its commit, under the unique constraints
\* on email and unique_id
CreateSuperuserCreate(p, g) ==
    LET c == calls[p]
        uid == generate_id(IDPrefix(SUPERUSER), g) IN
    /\ c.op = "create_superuser" /\ c.pc = "create"
    /\ IF c.email \in DOMAIN users \/ UniqueIdConflict(users, c.email, uid)
         THEN CallStep(p, Finish(c, Err("internal", "IntegrityError")), users, codes)
         ELSE CallStep(p, Finish(c, Ok("created", uid)),
                       InsertUser(users, c.email,
                                  NewUser(SUPERUSER, hash_password(c.password), uid)),
                       codes)

\* no handler is observed in the concurrent specifications
InitRace ==
    /\ users = NoRows
    /\ codes = NoRows
    /\ now = 0
    /\ last = NoLast
    /\ observed = {}
    /\ calls = NoCalls

\* two verify_reset_code requests in flight, after the handlers that lead to
\* a reset code being issued
NextVerifyRace ==
    \/ \E e \in RegisterEmails : Serial(CreateUser(e))
    \/ \E e \in RegisterEmails, nr \in NewRoles, g \in GenDraws :
         Serial(UpdateRole(SUPERUSER, e, nr, g))
    \/ \E e \in RegisterEmails : Serial(ToggleFlag(SUPERUSER, e, "is_verified"))
    \/ \E e \in RegisterEmails : \E u \in RequestIds(e), k \in Secrets, c \in CodeDraws :
         Serial(RequestPasswordReset(e, u, k, c))
    \/ \E p \in Procs, e \in RegisterEmails, code \in CodeInputs :
         VerifyResetCodeStart(p, e, code)
    \/ \E p \in Procs : VerifyResetCodeLookup(p)
    \/ \E p \in Procs : VerifyCodeSelect(p)
    \/ \E p \in Procs : VerifyCodeDelete(p)
    \/ \E p \in Procs, g \in GenDraws : VerifyResetCodeCommit(p, g)
    \/ \E p \in Procs : VerifyResetCodeRefresh(p)
    \/ \E p \in Procs : Respond(p)

SpecVerifyRace == InitRace /\ [][NextVerifyRace]_vars

\* two update_role requests in flight
NextRoleRace ==
    \/ \E e \in RegisterEmails : Serial(CreateUser(e))
    \/ \E p \in Procs, a \in ActorRoles, e \in RegisterEmails, nr \in NewRoles :
         UpdateRoleStart(p, a, e, nr)
    \/ \E p \in Procs : UpdateRoleLookup(p)
    \/ \E p \in Procs, g \in GenDraws : UpdateRoleCommit(p, g)
    \/ \E p \in Procs : UpdateRoleRefresh(p)
    \/ \E p \in Procs : Respond(p)

SpecRoleRace == InitRace /\ [][NextRoleRace]_vars

\* two generate_verification_code requests in flight, for identities that
\* may hold a code already
NextIssueRace ==
    \/ \E e \in Emails : Serial(CreateUser(e))
    \/ \E e \in Emails, c \in CodeDraws : Serial(GetVerificationCode(e, c))
    \/ \E p \in Procs, e \in Emails : GenerateVerificationCodeStart(p, e)
    \/ \E p \in Procs, cd \in CodeDraws : GenerateVerificationCodeRun(p, cd)
    \/ \E p \in Procs : Respond(p)

SpecIssueRace == InitRace /\ [][NextIssueRace]_vars

\* two toggle_flag requests in flight
NextToggleRace ==
    \/ \E e \in RegisterEmails : Serial(CreateUser(e))
    \/ \E p \in Procs, a \in ActorRoles, e \in RegisterEmails, f \in ApprovalFlags :
         ToggleFlagStart(p, a, e, f)
    \/ \E p \in Procs : ToggleFlagLookup(p)
    \/ \E p \in Procs : ToggleFlagCommit(p)
    \/ \E p \in Procs : ToggleFlagRefresh(p)
    \/ \E p \in Procs : Respond(p)

SpecToggleRace == InitRace /\ [][NextToggleRace]_vars

\* two create_superuser requests in flight
NextBootstrapRace ==
    \/ \E p \in Procs, e \in Emails, pw \in NewPasswords, k \in Secrets :
         CreateSuperuserStart(p, e, pw, k)
    \/ \E p \in Procs : CreateSuperuserCheck(p)
    \/ \E p \in Procs, g \in GenDraws : CreateSuperuserCreate(p, g)
    \/ \E p \in Procs : Respond(p)

SpecBootstrapRace == InitRace /\ [][NextBootstrapRace]_vars

(***************************************************************************)
(* Properties                                                              *)
(***************************************************************************)
Superusers == {e \in DOMAIN users : users[e].role = SUPERUSER}

\* C1: after any sequence of completed bootstrap, role, flag, login and
\* reset calls at most one identity has role SUPERUSER.
C1_AtMostOneSuperuser == Cardinality(Superusers) <= 1

\* a SUPERUSER actor asked for SUPERUSER for another identity, the call
\* returned success, and there is still one superuser
C1_Witness ==
    /\ last.op = "update_role" /\ last.res = "ok" /\ last.new_role = SUPERUSER
    /\ Superusers # {} /\ last.email \notin Superusers

\* C2: update_role never changes a SUPERUSER target: whatever the actor and
\* the requested role the store is left as it was, and a requested role
\* other than SUPERUSER is answered Forbidden.
C2_FrozenSuperuser ==
    \A e \in Superusers :
      \A a \in UserRole, nr \in UserRole, g \in GenDraws :
        LET o == update_role(users, codes, a, e, nr, g) IN
          /\ o.users = users
          /\ nr # SUPERUSER => o.r.res = "forbidden"

C2_Witness ==
    /\ last.op = "update_role" /\ last.res = "forbidden"
    /\ last.email \in Superusers

\* the role permission matrix as the specification states it
MatrixAllows(actor, target_role, new_role) ==
    \/ actor = SUPERUSER
    \/ actor = SUPER_ADMIN /\ target_role \in {USER, ADMIN} /\ new_role \in {USER, ADMIN}

\* C3: for an existing target a role change succeeds only when the actor is
\* SUPERUSER, or SUPER_ADMIN with the target's role and the new role both in
\* {USER, ADMIN}; every other combination is answered Forbidden.  Both
\* update_role handlers are covered.
C3_PermissionMatrix ==
    \A a \in UserRole, e \in DOMAIN users, nr \in UserRole, g \in GenDraws :
      LET o1 == update_role(users, codes, a, e, nr, g)
          o2 == svc_update_role(users, codes, a, e, nr, g)
          allowed == MatrixAllows(a, users[e].role, nr) IN
        /\ o1.r.res = "ok" => allowed
        /\ o2.r.res = "ok" => allowed
        /\ ~allowed => o1.r.res = "forbidden" /\ o2.r.res = "forbidden"
        /\ ~allowed => o1.users = users /\ o2.users = users

\* a SUPER_ADMIN actor changed a role
C3_Witness ==
    /\ last.op = "update_role" /\ last.res = "ok" /\ last.actor = SUPER_ADMIN
    /\ last.new_role = ADMIN /\ users[last.email].role = ADMIN

\* C4 as claimed: every successful update_role leaves the target with a
\* secondary credential different from the one it had, null exactly when the
\* new role is USER.
C4_RotationOnSuccess ==
    [][(last'.op = "update_role" /\ last'.res = "ok") =>
         /\ users'[last'.email].unique_id # users[last'.email].unique_id
         /\ (users'[last'.email].unique_id = NoneId) <=> (last'.new_role = USER)]_vars

\* the replay of reset_password_with_otp with the credential the last call
\* was given is refused and changes nothing
ReplayRefused ==
    \A p \in Passwords, g \in GenDraws :
      LET o == reset_password_with_otp(users, codes, last.email, last.inp, p, g) IN
        o.r.res = "invalid_credentials" /\ o.users = users

\* C5 as claimed: for a verified privileged identity, after
\* verify_reset_code and then reset_password_with_otp with the value it
\* returned both succeeded, a second reset_password_with_otp with that same
\* value fails with InvalidCredentials and leaves the password hash alone.
C5_NoOtpReplay ==
    [][(/\ last.op = "verify_reset_code" /\ last.res = "ok"
        /\ users[last.email].is_verified
        /\ users[last.email].role \in PrivilegedRoles
        /\ last'.op = "reset_password_with_otp" /\ last'.res = "ok"
        /\ last'.email = last.email
        /\ last'.inp = users[last.email].unique_id)
       => ReplayRefused']_vars

\* C6: a verification code is single-use: right after verify_reset_code
\* succeeded with a code, verify_reset_code with the same code fails with
\* InvalidVerificationCode and does not rotate the secondary credential.
C6_CodeSingleUse ==
    (last.op = "verify_reset_code" /\ last.res = "ok") =>
      \A g \in GenDraws :
        LET o == verify_reset_code(users, codes, last.email, last.inp, g, now) IN
          /\ o.r.res = "invalid_verification_code"
          /\ o.users = users

\* verify_reset_code succeeded for a privileged identity, whose credential
\* it rotated
C6_Witness ==
    /\ last.op = "verify_reset_code" /\ last.res = "ok"
    /\ users[last.email].role \in PrivilegedRoles

\* C7: an identity with a non-null secondary credential has role ADMIN,
\* SUPER_ADMIN or SUPERUSER.
C7_CredentialOnlyForPrivileged ==
    \A e \in DOMAIN users :
      users[e].unique_id # NoneId => users[e].role \in PrivilegedRoles

\* a privileged identity was demoted to USER
C7_Witness ==
    /\ last.op = "update_role" /\ last.res = "ok" /\ last.new_role = USER
    /\ users[last.email].role = USER

\* the unique_id values a login for e-mail e is tried with: the stored one,
\* the decoy, the empty ones and the generated ones of one role
LoginIds(e) ==
    (IF e \in DOMAIN users THEN {users[e].unique_id} ELSE {})
      \cup {fake_unique_id, NoneId, EmptyId}
      \cup {generate_id(IDPrefix(ADMIN), g) : g \in GenDraws}

RemoveUser(us, e) == [x \in DOMAIN us \ {e} |-> us[x]]

\* C8: a login that fails credential checking gets the one response
\* InvalidCredentials, the same whether an input is empty, the e-mail is
\* unknown, the password is wrong or the secondary credential is wrong, and
\* the same as in the store that differs only in not holding the e-mail.
C8_UniformInvalidCredentials ==
    \A e \in EmailInputs : \A p \in PasswordInputs, u \in LoginIds(e) :
      LET r == login(users, codes, e, p, u).r IN
        (~TruthyStr(e) \/ ~TruthyStr(p) \/ ~TruthyId(u) \/ ~credentials_ok(users, e, p, u)) =>
          /\ r = [res |-> "invalid_credentials", detail |-> "Invalid email or password",
                  out |-> NoneId]
          /\ r = login(RemoveUser(users, e), codes, e, p, u).r

\* a login for a registered e-mail that holds a password was refused with
\* InvalidCredentials
C8_Witness ==
    /\ last.op = "login" /\ last.res = "invalid_credentials"
    /\ last.email \in DOMAIN users
    /\ users[last.email].hashed_password # NoneHash
    /\ users[last.email].unique_id # NoneId

\* C9: login succeeds, returning the minted tokens, exactly when the three
\* inputs are non-empty, the identity exists, the password matches the
\* stored hash, the secondary credential equals the stored one, the identity
\* is verified and its role is ADMIN, SUPER_ADMIN or SUPERUSER.
C9_LoginSuccessIff ==
    \A e \in EmailInputs : \A p \in PasswordInputs, u \in LoginIds(e) :
      LET r == login(users, codes, e, p, u).r IN
        /\ r.res = "ok" <=>
             /\ e # "" /\ p # "" /\ u \notin {NoneId, EmptyId}
             /\ e \in DOMAIN users
             /\ users[e].hashed_password = hash_password(p)
             /\ users[e].unique_id = u
             /\ users[e].is_verified
             /\ users[e].role \in {ADMIN, SUPER_ADMIN, SUPERUSER}
        /\ r.res = "ok" => r.out = <<"tokens", 0>>

C9_Witness == last.op = "login" /\ last.res = "ok"

\* C10 as claimed: after the three credential checks an unverified identity
\* gets NotVerified and a verified USER gets Forbidden.
C10_NotVerifiedKind ==
    \A e \in Emails : \A p \in Passwords, u \in LoginIds(e) :
      (credentials_ok(users, e, p, u) /\ TruthyId(u) /\ ~users[e].is_verified) =>
        login(users, codes, e, p, u).r.res = "not_verified"

\* C10 amended: after the three credential checks an unverified identity
\* gets Forbidden "Email not verified" and a verified identity outside
\* ADMIN, SUPER_ADMIN, SUPERUSER gets Forbidden "Admin approval required";
\* the two responses differ, and Forbidden is never returned unless the
\* identity was found and password and secondary credential matched.
C10_PostAuthenticationErrors ==
    /\ not_verified_error # not_privileged_error
    /\ \A e \in EmailInputs : \A p \in PasswordInputs, u \in LoginIds(e) :
         LET r == login(users, codes, e, p, u).r
             passed == TruthyStr(e) /\ TruthyStr(p) /\ TruthyId(u)
                         /\ credentials_ok(users, e, p, u) IN
           /\ (passed /\ ~users[e].is_verified) =>
                r = [res |-> "forbidden", detail |-> "Email not verified", out |-> NoneId]
           /\ (passed /\ users[e].is_verified /\ users[e].role \notin PrivilegedRoles) =>
                r = [res |-> "forbidden", detail |-> "Admin approval required",
                     out |-> NoneId]
           /\ r.res \notin {"ok", "invalid_credentials"} => passed

\* an unverified identity presented matching credentials and was refused
C10_Witness ==
    /\ last.op = "login" /\ last.res = "forbidden"
    /\ ~users[last.email].is_verified

\* every create_superuser call, whatever its secret key, e-mail and password,
\* is answered Forbidden and creates nothing
BootstrapRefused ==
    \A e \in Emails, p \in Passwords, k \in SecretInputs, g \in GenDraws :
      LET o == create_superuser(users, codes, e, p, k, g) IN
        o.r.res = "forbidden" /\ o.users = users

\* C11: once create_superuser has succeeded, every later create_superuser
\* call, with any secret key, e-mail and password and after any other calls,
\* is answered Forbidden and creates no identity: a successful call leaves a
\* superuser, a superuser stays, and while there is one every call is refused.
C11_BootstrapOnce ==
    /\ [][/\ (last'.op = "create_superuser" /\ last'.res = "ok") => Superusers' # {}
          /\ Superusers # {} => Superusers' # {}]_vars
    /\ [](Superusers # {} => BootstrapRefused)

\* with the superuser and a registered identity in the store, a
\* create_superuser call was refused
C11_Witness ==
    /\ last.op = "create_superuser" /\ last.res = "forbidden"
    /\ Superusers # {} /\ DOMAIN users = Emails

\* C12: verify answers true exactly when the identity has a code record, its
\* value is the supplied code and the current time is strictly before its
\* expiry; the expiry of an issued record is the issue time plus 10 minutes,
\* so a code presented 10 minutes after its issue or later is refused.
C12_VerifyWithinWindow ==
    /\ [][(last'.op = "get_verification_code" /\ last'.res = "ok") =>
             codes'[last'.email].expires_at = now + 10]_vars
    /\ [](\A e \in Emails, code \in CodeInputs :
            verify_code(codes, e, code, now).ok <=>
              /\ e \in DOMAIN codes
              /\ codes[e].code = code
              /\ now < codes[e].expires_at)

\* the stored code was presented at exactly its expiry and refused
C12_Witness ==
    /\ last.op = "verify_email" /\ last.res = "invalid_verification_code"
    /\ last.email \in DOMAIN codes
    /\ codes[last.email].code = last.inp
    /\ codes[last.email].expires_at = now

\* C13 as claimed: issuing a code for a registered identity returns a code and
\* supersedes the previous one: the identity then holds one code record,
\* verify accepts the new code within its window and refuses the previous
\* code when it differs.
C13_IssueSupersedes ==
    [][(/\ last'.op \in {"get_verification_code", "generate_verification_code"}
        /\ last'.email \in DOMAIN users)
       => /\ last'.res = "ok"
          /\ last'.email \in DOMAIN codes'
          /\ verify_code(codes', last'.email, codes'[last'.email].code, now').ok
          /\ (/\ last'.email \in DOMAIN codes
              /\ codes[last'.email].code # codes'[last'.email].code)
             => ~verify_code(codes', last'.email, codes[last'.email].code, now').ok]_vars

\* what request_password_reset has to find to issue a code
ResetAllowed(e, u, k) ==
    /\ e \in DOMAIN users
    /\ users[e].is_verified
    /\ users[e].role \in {ADMIN, SUPER_ADMIN, SUPERUSER}
    /\ u = users[e].unique_id
    /\ users[e].role = SUPERUSER => k = "secret"

\* C14: request_password_reset issues a verification code only if the
\* identity exists, is verified, has role ADMIN, SUPER_ADMIN or SUPERUSER,
\* the supplied secondary credential equals the stored one and, for a
\* SUPERUSER, the supplied secret key equals the configured one; in every
\* other case no code is issued and the code store is left as it was.
C14_ResetRequestGuard ==
    \A e \in EmailInputs : \A u \in LoginIds(e), k \in SecretInputs, c \in CodeDraws :
      LET o == request_password_reset(users, codes, e, u, k, c, now) IN
        /\ o.r.res = "ok" => ResetAllowed(e, u, k)
        /\ ~ResetAllowed(e, u, k) => o.r.res # "ok" /\ o.codes = codes
        /\ o.r.res # "ok" => o.codes = codes
        /\ o.users = users

\* a request was refused for its secondary credential while the identity
\* held a code, which is still there
C14_Witness ==
    /\ last.op = "request_password_reset" /\ last.res = "invalid_credentials"
    /\ last.email \in DOMAIN codes

\* the verified identities with the given roles
VerifiedWithRole(roles) ==
    {e \in DOMAIN users : users[e].is_verified /\ users[e].role \in roles}

\* C15 as claimed: for a verified ADMIN or SUPER_ADMIN a secondary credential
\* that is absent or differs from the stored one is answered
\* InvalidCredentials; for a SUPERUSER a wrong secret key is answered
\* Forbidden before the secondary credential is looked at, whose mismatch is
\* answered InvalidCredentials.
C15_AbsentIsInvalidCredentials ==
    /\ \A e \in VerifiedWithRole({ADMIN, SUPER_ADMIN}) :
         \A u \in LoginIds(e), k \in SecretInputs, c \in CodeDraws :
           u # users[e].unique_id =>
             request_password_reset(users, codes, e, u, k, c, now).r.res
               = "invalid_credentials"
    /\ \A e \in VerifiedWithRole({SUPERUSER}) :
         \A u \in LoginIds(e), k \in SecretInputs, c \in CodeDraws :
           LET r == request_password_reset(users, codes, e, u, k, c, now).r IN
             /\ k # "secret" => r.res = "forbidden"
             /\ (k = "secret" /\ u \notin {NoneId, EmptyId} /\ u # users[e].unique_id) =>
                  r.res = "invalid_credentials"

\* C15 amended: for a verified ADMIN or SUPER_ADMIN an absent secondary
\* credential is answered Forbidden and a present one that differs from the
\* stored one InvalidCredentials; for a verified SUPERUSER an absent secret
\* key or secondary credential and a wrong secret key are answered Forbidden,
\* whatever the secondary credential, and with the right key a present
\* secondary credential that differs is answered InvalidCredentials.
C15_ResetRequestErrors ==
    /\ \A e \in VerifiedWithRole({ADMIN, SUPER_ADMIN}) :
         \A u \in LoginIds(e), k \in SecretInputs, c \in CodeDraws :
           LET r == request_password_reset(users, codes, e, u, k, c, now).r IN
             /\ u \in {NoneId, EmptyId} =>
                  r = [res |-> "forbidden", detail |-> "Admin/Superadmin requires unique_id",
                       out |-> NoneId]
             /\ (u \notin {NoneId, EmptyId} /\ u # users[e].unique_id) =>
                  r.res = "invalid_credentials"
    /\ \A e \in VerifiedWithRole({SUPERUSER}) :
         \A u \in LoginIds(e), k \in SecretInputs, c \in CodeDraws :
           LET r == request_password_reset(users, codes, e, u, k, c, now).r IN
             /\ (k # "secret" \/ u \in {NoneId, EmptyId}) => r.res = "forbidden"
             /\ (k = "secret" /\ u \notin {NoneId, EmptyId} /\ u # users[e].unique_id) =>
                  r.res = "invalid_credentials"

\* a verified ADMIN or SUPER_ADMIN asked for a reset and was answered
\* Forbidden, which only the absent secondary credential gives
C15_Witness ==
    /\ last.op = "request_password_reset" /\ last.res = "forbidden"
    /\ last.email \in VerifiedWithRole({ADMIN, SUPER_ADMIN})

\* C16 as claimed: for a registered identity reset_password_with_otp succeeds
\* exactly when the supplied value equals the stored secondary credential; a
\* success replaces the password hash and rotates the secondary credential
\* in the one update, and a failure is InvalidCredentials and changes
\* neither; for an unregistered e-mail it is EmailNotRegistered.
C16_ResetWithOtp ==
    \A e \in Emails : \A otp \in LoginIds(e), p \in Passwords, g \in GenDraws :
      LET o == reset_password_with_otp(users, codes, e, otp, p, g) IN
        IF e \notin DOMAIN users
          THEN o.r.res = "email_not_registered" /\ o.users = users
          ELSE /\ o.r.res = "ok" <=> otp = users[e].unique_id
               /\ o.r.res = "ok" =>
                    /\ o.users[e].hashed_password = hash_password(p)
                    /\ o.users[e].unique_id # users[e].unique_id
                    /\ \A x \in DOMAIN users \ {e} : o.users[x] = users[x]
               /\ o.r.res # "ok" =>
                    o.r.res = "invalid_credentials" /\ o.users = users

\* the secondary credential old is refused for e-mail e by login,
\* request_password_reset and reset_password_with_otp in the stores us, cs
CredentialRejected(us, cs, e, old) ==
    \A p \in Passwords, k \in SecretInputs, c \in CodeDraws, g \in GenDraws :
      /\ login(us, cs, e, p, old).r.res # "ok"
      /\ request_password_reset(us, cs, e, old, k, c, now).r.res # "ok"
      /\ reset_password_with_otp(us, cs, e, old, p, g).r.res # "ok"

\* C17 as claimed: after a successful update_role the secondary credential
\* the target held before the call is refused by the login,
\* request_password_reset and reset_password_with_otp calls that follow for
\* that target.
C17_OldCredentialRejected ==
    \A a \in UserRole, e \in DOMAIN users, nr \in UserRole, g \in GenDraws :
      LET o == update_role(users, codes, a, e, nr, g) IN
        (o.r.res = "ok" /\ users[e].unique_id # NoneId) =>
          CredentialRejected(o.users, o.codes, e, users[e].unique_id)

\* C18 as claimed: when verify_reset_code succeeds it returns the secondary
\* credential it stored, and reset_password_with_otp with the secondary
\* credential the identity held before that call fails with
\* InvalidCredentials.
C18_StaleCredentialFailsReset ==
    \A e \in DOMAIN users, code \in CodeInputs, g \in GenDraws :
      LET o == verify_reset_code(users, codes, e, code, g, now) IN
        o.r.res = "ok" =>
          /\ o.r.out = o.users[e].unique_id
          /\ \A p \in Passwords, g2 \in GenDraws :
               reset_password_with_otp(o.users, o.codes, e, users[e].unique_id, p, g2).r.res
                 = "invalid_credentials"

\* the flag permission matrix as the specification states it
FlagAllows(actor, target_role, flag) ==
    \/ actor = SUPERUSER
    \/ actor = SUPER_ADMIN /\ flag = "admin_approval" /\ target_role \in {USER, ADMIN}

\* C19: for an existing target toggle_flag succeeds only when the actor is
\* SUPERUSER, or SUPER_ADMIN with the flag admin_approval and the target's
\* role in {USER, ADMIN}; every other actor role, and SUPER_ADMIN with any
\* other flag or target role, is answered Forbidden and no flag is flipped.
C19_FlagMatrix ==
    \A a \in UserRole, e \in DOMAIN users, f \in FlagInputs :
      LET o == toggle_flag(users, codes, a, e, f)
          allowed == FlagAllows(a, users[e].role, f) IN
        /\ o.r.res = "ok" => allowed
        /\ ~allowed => o.r.res = "forbidden" /\ o.users = users /\ o.codes = codes

\* a SUPER_ADMIN actor flipped admin_approval of an ADMIN target, and a
\* SUPERUSER is there for which the same call is refused
C19_Witness ==
    /\ last.op = "toggle_flag" /\ last.res = "ok" /\ last.actor = SUPER_ADMIN
    /\ users[last.email].role = ADMIN
    /\ users[last.email].admin_approval
    /\ Superusers # {}

\* a change_role request for the role the target already has that passes the
\* permission matrix; the frozen-superuser check never refuses such a request
SameRolePasses(actor, target_role) == MatrixAllows(actor, target_role, target_role)

\* C20 as claimed: a role change that passes the permission matrix and the
\* frozen-superuser check and asks for the role the target already has is
\* answered with the same-role error (raised as already_verified, 'already
\* upgrade role') and leaves the target's role and secondary credential as
\* they were.  Both update_role handlers are covered.
C20_SameRoleIsNoOp ==
    \A a \in UserRole, e \in DOMAIN users, g \in GenDraws :
      LET o1 == update_role(users, codes, a, e, users[e].role, g)
          o2 == svc_update_role(users, codes, a, e, users[e].role, g) IN
        SameRolePasses(a, users[e].role) =>
          /\ o1.r.res = "already_verified" /\ o1.users = users
          /\ o2.r.res = "already_verified" /\ o2.users = users

\* C21 as claimed: every update_role call that returns success leaves the
\* target's stored role equal to the requested role, whatever role the
\* permission matrix allowed (SUPERUSER requested by a SUPERUSER actor for
\* another identity included), and changes no other identity: one
\* transition per call.
C21_RoleIsRequestedRole ==
    \A a \in UserRole, e \in DOMAIN users, nr \in UserRole, g \in GenDraws :
      LET o == update_role(users, codes, a, e, nr, g) IN
        o.r.res = "ok" =>
          /\ o.users[e].role = nr
          /\ \A x \in DOMAIN users \ {e} : o.users[x] = users[x]

\* two requests of the same handler for the same identity that have both
\* run to their response
BothDone(op) ==
    /\ \A p \in Procs : calls[p].pc = "done" /\ calls[p].op = op
    /\ calls[1].email = calls[2].email

\* C22 as claimed: of two verify_reset_code requests for the same identity
\* with the same code that run while no code is issued, at most one returns
\* success, and the unique_id stored afterwards is the one that request
\* returned.
C22_OneVerifyWins ==
    (BothDone("verify_reset_code") /\ calls[1].code = calls[2].code) =>
      /\ ~(calls[1].res = "ok" /\ calls[2].res = "ok")
      /\ \A p \in Procs :
           calls[p].res = "ok" => users[calls[p].email].unique_id = calls[p].out

\* request p commits a role transition in this step
CommitsTransition(p) ==
    /\ calls[p].op = "update_role"
    /\ calls[p].pc = "commit" /\ calls'[p].pc = "refresh"

\* C23 as claimed: whatever the interleaving of two update_role requests on
\* one target, a transition is committed only if the permission matrix
\* allows it for the role the target has in the store at the moment of the
\* write.
C23_AtomicRoleTransition ==
    [][\A p \in Procs :
         CommitsTransition(p) =>
           MatrixAllows(calls[p].actor, users[calls[p].email].role, calls[p].new_role)]_vars

\* C24 as claimed: when two generate_verification_code requests for one
\* registered identity have run, interleaved in any way, the store holds
\* exactly one code record for that identity, valid from now on, and both
\* requests have returned a code.
C24_OneRecordAfterIssue ==
    (BothDone("generate_verification_code") /\ calls[1].email \in DOMAIN users) =>
      /\ calls[1].email \in DOMAIN codes
      /\ \A p \in Procs : calls[p].res = "ok"

\* a pair of identities holds the same non-null unique_id
SharedUniqueId(us) ==
    \E x, y \in DOMAIN us :
      x # y /\ us[x].unique_id # NoneId /\ us[x].unique_id = us[y].unique_id

\* C25 as claimed: update_role, create_superuser, verify_reset_code and
\* reset_password_with_otp answer a uniqueness conflict on the generated
\* unique_id by generating another value, so they fail with an Internal
\* error only when the other values they could draw are in conflict too.
C25_RetryOnCollision ==
    \A e \in Emails, g, g2 \in GenDraws :
      /\ \A a \in UserRole, nr \in UserRole :
           update_role(users, codes, a, e, nr, g).r.res = "internal" =>
             update_role(users, codes, a, e, nr, g2).r.res = "internal"
      /\ \A p \in Passwords, k \in SecretInputs :
           create_superuser(users, codes, e, p, k, g).r.res = "internal" =>
             create_superuser(users, codes, e, p, k, g2).r.res = "internal"
      /\ \A code \in CodeInputs :
           verify_reset_code(users, codes, e, code, g, now).r.res = "internal" =>
             verify_reset_code(users, codes, e, code, g2, now).r.res = "internal"
      /\ \A otp \in IdInputs, p \in Passwords :
           reset_password_with_otp(users, codes, e, otp, p, g).r.res = "internal" =>
             reset_password_with_otp(users, codes, e, otp, p, g2).r.res = "internal"

\* C26: in every reachable state no two distinct identities hold the same
\* non-null unique_id, and none of update_role, create_superuser,
\* verify_reset_code and reset_password_with_otp leaves such a pair behind,
\* whatever it is called with.
C26_UniqueIdIsUnique ==
    /\ ~SharedUniqueId(users)
    /\ \A e \in Emails, g \in GenDraws :
         /\ \A a \in UserRole, nr \in UserRole :
              ~SharedUniqueId(update_role(users, codes, a, e, nr, g).users)
         /\ \A p \in Passwords, k \in SecretInputs :
              ~SharedUniqueId(create_superuser(users, codes, e, p, k, g).users)
         /\ \A code \in CodeInputs :
              ~SharedUniqueId(verify_reset_code(users, codes, e, code, g, now).users)
         /\ \A otp \in IdInputs, p \in Passwords :
              ~SharedUniqueId(reset_password_with_otp(users, codes, e, otp, p, g).users)

\* a handler drew the unique_id another identity holds, and was refused
C26_Witness ==
    /\ last.op \in PeerOps
    /\ last.res = "internal"
    /\ \E x, y \in DOMAIN users :
         /\ x # y /\ users[x].role = users[y].role
         /\ users[x].unique_id # NoneId /\ users[y].unique_id # NoneId

\* the names of the steps of a login execution, in order
StepNames(steps) == [i \in DOMAIN steps |-> steps[i].step]

C29_VerifyFrame ==
    \A e \in Emails, code \in CodeInputs :
      LET v == verify_code(codes, e, code, now)
          valid == /\ e \in DOMAIN codes
                   /\ codes[e].code = code
                   /\ now < codes[e].expires_at IN
        /\ v.ok \in BOOLEAN
        /\ v.ok <=> valid
        /\ ~v.ok => v.codes = codes
        /\ v.ok => /\ DOMAIN v.codes = DOMAIN codes \ {e}
                   /\ \A x \in DOMAIN v.codes : v.codes[x] = codes[x]

\* a code was verified and consumed while the other identity's record,
\* expired by now, is still in the store
C29_Witness ==
    /\ last.op = "verify_email" /\ last.res = "ok"
    /\ last.email \notin DOMAIN codes
    /\ \E x \in DOMAIN codes : codes[x].expires_at <= now

\* role arguments, one of them not a role
RoleInputs == UserRole \cup {"nope"}

\* C30: update_role makes its checks in a fixed order.  An absent target is
\* answered NotFound whatever the actor's role and the requested role; for
\* an existing target a denial by the permission matrix or by the
\* frozen-superuser rule is answered Forbidden also when the requested role
\* is the target's current one, so an actor with role USER or ADMIN asking
\* for the target's current role gets Forbidden, not the same-role error.
C30_CheckOrder ==
    \A a \in UserRole, g \in GenDraws :
      /\ \A e \in Emails \ DOMAIN users, nr \in RoleInputs :
           update_role(users, codes, a, e, nr, g).r.res = "not_found"
      /\ \A e \in DOMAIN users, nr \in UserRole :
           LET o == update_role(users, codes, a, e, nr, g)
               denied == \/ ~MatrixAllows(a, users[e].role, nr)
                         \/ (users[e].role = SUPERUSER /\ nr # SUPERUSER) IN
             /\ denied => o.r.res = "forbidden"
             /\ (a \in {USER, ADMIN} /\ nr = users[e].role) => o.r.res = "forbidden"

\* an ADMIN actor asked for the role the target has and was answered
\* Forbidden
C30_Witness ==
    /\ last.op = "update_role" /\ last.res = "forbidden"
    /\ last.actor = ADMIN
    /\ last.email \in DOMAIN users
    /\ last.new_role = users[last.email].role

\* the columns of a users row other than the named one
SameBut(u, v, flag) ==
    /\ u.role = v.role /\ u.unique_id = v.unique_id
    /\ u.hashed_password = v.hashed_password
    /\ \A f \in BoolFlags \ {flag} : flag_value(u, f) = flag_value(v, f)

\* C31: a successful toggle_flag negates exactly the named boolean attribute
\* of the target and leaves its role, secondary credential, password hash
\* and other flags, every other identity and the codes unchanged, so that a
\* second successful toggle of the same flag restores the original state; a
\* permitted actor naming an attribute that does not exist or is not boolean
\* gets BadRequest with nothing changed, and a forbidden actor naming such an
\* attribute gets Forbidden, not BadRequest.
C31_ToggleFrame ==
    \A a \in UserRole, e \in DOMAIN users, f \in FlagInputs :
      LET o == toggle_flag(users, codes, a, e, f)
          again == toggle_flag(o.users, o.codes, a, e, f) IN
        /\ o.r.res = "ok" =>
             /\ f \in BoolFlags
             /\ flag_value(o.users[e], f) = ~flag_value(users[e], f)
             /\ SameBut(o.users[e], users[e], f)
             /\ DOMAIN o.users = DOMAIN users
             /\ \A x \in DOMAIN users \ {e} : o.users[x] = users[x]
             /\ o.codes = codes
             /\ again.r.res = "ok" /\ again.users = users /\ again.codes = codes
        /\ f \notin BoolFlags =>
             /\ o.users = users /\ o.codes = codes
             /\ o.r.res = IF FlagAllows(a, users[e].role, f)
                            THEN "bad_request" ELSE "forbidden"

\* a SUPERUSER actor toggled a flag of an ADMIN target that now has both
\* is_verified and admin_approval set and still has its credential
C31_Witness ==
    /\ last.op = "toggle_flag" /\ last.res = "ok" /\ last.actor = SUPERUSER
    /\ users[last.email].role = ADMIN
    /\ users[last.email].unique_id # NoneId
    /\ users[last.email].is_verified /\ users[last.email].admin_approval

\* request p commits a flip in this step
CommitsToggle(p) ==
    /\ calls[p].op = "toggle_flag"
    /\ calls[p].pc = "commit" /\ calls'[p].pc = "refresh"

\* C32 as claimed: whatever the interleaving of two toggle_flag requests on
\* one target and flag, the value a request writes is the negation of the
\* value the store holds at the moment of the write, so that two successful
\* toggles give the original value back.
C32_FlipAtWriteTime ==
    [][\A p \in Procs :
         CommitsToggle(p) =>
           flag_value(users'[calls[p].email], calls[p].flag)
             = ~flag_value(users[calls[p].email], calls[p].flag)]_vars

\* C33 as claimed: of two create_superuser requests with the correct secret
\* key and different e-mails, interleaved in any way, at most one creates an
\* identity, and the store never holds two identities with role SUPERUSER.
C33_OneBootstrapWins ==
    /\ Cardinality(Superusers) <= 1
    /\ (/\ \A p \in Procs : calls[p].pc = "done" /\ calls[p].op = "create_superuser"
        /\ calls[1].email # calls[2].email)
         => ~(calls[1].res = "ok" /\ calls[2].res = "ok")

\* C34: in every state reached by completed calls, a non-null unique_id
\* carries the prefix of the role its identity has now, which is one of
\* ADMIN, SUPER_ADMIN and SUPERUSER: bootstrap, role change, verify_reset_code
\* and reset_password_with_otp generate it with the prefix of the role the
\* identity has after the call.
C34_PrefixIsCurrentRole ==
    \A e \in DOMAIN users :
      users[e].unique_id # NoneId =>
        /\ users[e].role \in PrivilegedRoles
        /\ users[e].unique_id[1] = IDPrefix(users[e].role)

\* a SUPER_ADMIN has reset its password, which rotated its credential, and a
\* SUPERUSER holds a credential of its own
C34_Witness ==
    /\ last.op = "reset_password_with_otp" /\ last.res = "ok"
    /\ users[last.email].role = SUPER_ADMIN
    /\ users[last.email].unique_id # NoneId
    /\ Superusers # {}

\* C35 as claimed: a successful verify_reset_code follows a successful
\* request_password_reset for the identity whose code is still the stored
\* one; with a code that get_verification_code has just issued for the
\* identity, verify_reset_code does not succeed, rotate and return the
\* unique_id.
C35_ResetCodeOnly ==
    [][(/\ last.op = "get_verification_code" /\ last.res = "ok"
        /\ last'.op = "verify_reset_code" /\ last'.email = last.email)
         => ~(last'.res = "ok" /\ users'[last'.email].unique_id # NoneId)]_vars

\* C36 as claimed: the reset protocol never changes the password hash of an
\* identity with role USER: its stored unique_id being null,
\* reset_password_with_otp answers InvalidCredentials whatever value it is
\* given, the null one included, and changes nothing.
C36_UserPasswordUntouched ==
    \A e \in DOMAIN users :
      (users[e].role = USER /\ users[e].unique_id = NoneId) =>
        \A otp \in LoginIds(e) \cup {NoneId}, p \in Passwords, g \in GenDraws :
          LET o == reset_password_with_otp(users, codes, e, otp, p, g) IN
            /\ o.r.res = "invalid_credentials"
            /\ o.users[e].hashed_password = users[e].hashed_password

\* the call consumed the code stored for e-mail e
Consumed(cs, after, e) == e \in DOMAIN cs /\ e \notin DOMAIN after

\* C37 as claimed: verify_reset_code is all-or-nothing for an identity with
\* a privileged role: the code is consumed exactly when the call succeeds
\* and the rotated unique_id is stored, and when storing the rotation fails
\* on the unique constraint the code stays as it was.
C37_VerifyAllOrNothing ==
    \A e \in DOMAIN users : \A code \in CodeInputs, g \in GenDraws :
      users[e].role \in PrivilegedRoles =>
        LET o == verify_reset_code(users, codes, e, code, g, now) IN
          /\ Consumed(codes, o.codes, e)
               <=> (o.r.res = "ok" /\ o.users[e].unique_id = o.r.out)
          /\ o.r.res = "internal" => o.codes = codes

\* the call whose outcome is o left both stores as they were
Untouched(o) == o.users = users /\ o.codes = codes

\* C38: a call of update_role, toggle_flag, create_superuser,
\* request_password_reset or reset_password_with_otp that returns an error
\* leaves the users and the verification codes exactly as they were, and
\* login changes neither, whatever it returns.
C38_ErrorsChangeNothing ==
    /\ [][last'.op = "login" => users' = users /\ codes' = codes]_vars
    /\ [](\A e \in Emails :
           /\ \A a \in UserRole, nr \in RoleInputs, g \in GenDraws :
                LET o == update_role(users, codes, a, e, nr, g) IN
                  o.r.res # "ok" => Untouched(o)
           /\ \A a \in UserRole, f \in FlagInputs :
                LET o == toggle_flag(users, codes, a, e, f) IN
                  o.r.res # "ok" => Untouched(o)
           /\ \A p \in Passwords, k \in Secrets, g \in GenDraws :
                LET o == create_superuser(users, codes, e, p, k, g) IN
                  o.r.res # "ok" => Untouched(o)
           /\ \A u \in LoginIds(e), k \in Secrets \cup {""}, c \in CodeDraws :
                LET o == request_password_reset(users, codes, e, u, k, c, now) IN
                  o.r.res # "ok" => Untouched(o)
           /\ \A otp \in LoginIds(e), p \in Passwords, g \in GenDraws :
                LET o == reset_password_with_otp(users, codes, e, otp, p, g) IN
                  o.r.res # "ok" => Untouched(o)
           /\ \A p \in Passwords \cup {""}, u \in LoginIds(e) :
                Untouched(login(users, codes, e, p, u)))

\* a login was refused for its credentials while the identity holds a
\* credential and a verification code is stored for it
C38_Witness ==
    /\ last.op = "login" /\ last.res = "invalid_credentials"
    /\ last.email \in DOMAIN users /\ last.email \in DOMAIN codes
    /\ users[last.email].unique_id # NoneId

\* C39: an identity that enters the store with role SUPERUSER, which is
\* what create_superuser creates, is not verified at that moment, and as long
\* as a SUPERUSER is not verified a login with its e-mail, its password and
\* its unique_id passes the credential comparison and is refused for the
\* missing verification, and every request_password_reset for it is
\* answered Forbidden.
C39_BootstrapUnverified ==
    /\ [][\A e \in DOMAIN users' \ DOMAIN users :
             users'[e].role = SUPERUSER => ~users'[e].is_verified]_vars
    /\ [](\A e \in Superusers :
           ~users[e].is_verified =>
             /\ \A p \in Passwords :
                  verify_password(p, users[e].hashed_password) =>
                    /\ credentials_ok(users, e, p, users[e].unique_id)
                    /\ login(users, codes, e, p, users[e].unique_id).r = not_verified_error
             /\ \A u \in LoginIds(e), k \in Secrets \cup {""}, c \in CodeDraws :
                  LET o == request_password_reset(users, codes, e, u, k, c, now) IN
                    o.r.res = "forbidden" /\ o.codes = codes)

\* create_superuser has created the superuser, which is not verified and
\* holds its generated unique_id and its password, beside a registered
\* identity that has been verified
C39_Witness ==
    /\ \E e \in Superusers :
         /\ ~users[e].is_verified
         /\ users[e].unique_id # NoneId
         /\ users[e].hashed_password = hash_password("pw1")
    /\ \E e \in DOMAIN users : users[e].role # SUPERUSER /\ users[e].is_verified

====
